---- MODULE Spec2Model ----
(***************************************************************************)
(* The "Tendance" page (db-interface/app/tendance/page.tsx) and its SVG    *)
(* share-card generator (db-interface/lib/tendance-svg-export.ts).         *)
(*                                                                         *)
(* A JavaScript string is modelled as a sequence of characters; a          *)
(* character is a one-token TLA+ string ("a", "|", "&", ...).  Two tokens  *)
(* stand for characters that cannot be typed here: "KELVIN" is U+212A      *)
(* KELVIN SIGN (canonically equivalent to "K") and "ELLIPSIS" is U+2026.   *)
(***************************************************************************)
EXTENDS Integers, Sequences, FiniteSets, TLC

VARIABLES
  response,            \* the /api/tendance JSON payload the fetch resolves with
  loading,             \* useState(true)
  rawEntries,          \* useState<GranularEntry[]>([])
  availableExamTypes,  \* useState<string[]>([])
  availablePromos,     \* useState<number[]>([])
  selectedExamTypes,   \* useState<string[]>([])  (empty = all)
  selectedPromos,      \* useState<number[]>([])  (empty = all)
  selectedModule,      \* useState<string>("")
  filteredData,        \* useMemo value, recomputed when its dependencies change
  modules,             \* useMemo value, recomputed when filteredData changes
  opts,                \* the SvgExportOptions handed to generateTendanceSVG
  doc,                 \* the document generateTendanceSVG returned last
  exporting,           \* useState(false)
  exportDropdownOpen,  \* useState(false)
  exportStep,          \* useState<"module" | "subdisc">("module")
  exportSelectedModule,    \* useState<string>("")
  exportSelectedSubDiscs,  \* useState<string[]>([])
  downloaded,          \* the file the last export handed to the browser,
                       \* or the call of it that threw
  pc,                  \* the await fetchData is suspended at, or "done"
  aborted,             \* controller.signal.aborted
  redirected,          \* router.push("/login") was called
  error                \* useState<string | null>(null)

vars == <<response, loading, rawEntries, availableExamTypes, availablePromos,
          selectedExamTypes, selectedPromos, selectedModule, filteredData,
          modules, opts, doc, exporting, exportDropdownOpen, exportStep,
          exportSelectedModule, exportSelectedSubDiscs, downloaded,
          pc, aborted, redirected, error>>

fetchVars == <<pc, aborted, redirected, error>>

exportVars == <<exporting, exportDropdownOpen, exportStep,
                exportSelectedModule, exportSelectedSubDiscs, downloaded>>

pageVars == <<response, loading, rawEntries, availableExamTypes, availablePromos,
              selectedExamTypes, selectedPromos, selectedModule, filteredData,
              modules>>

svgVars == <<opts, doc, exportVars>>

----------------------------------------------------------------------------
(* Bounds of the model *)

\* longest "data" array of a modelled payload
MaxEntries == 3
\* most groups of a modelled SvgExportOptions
MaxGroups == 17
\* most entries of a group of a modelled SvgExportOptions
MaxGroupEntries == 6
\* longest text drawn for the text slots of a modelled SvgExportOptions
MaxTextLen == 3
\* largest question_count, and most entries, of a group in the bar inputs
MaxCount == 3

----------------------------------------------------------------------------
(* JavaScript strings, arrays and numbers *)

Lower == <<"a","b","c","d","e","f","g","h","i","j","k","l","m",
           "n","o","p","q","r","s","t","u","v","w","x","y","z">>
Upper == <<"A","B","C","D","E","F","G","H","I","J","K","L","M",
           "N","O","P","Q","R","S","T","U","V","W","X","Y","Z">>
Digits == <<"0","1","2","3","4","5","6","7","8","9">>

\* Array.prototype.includes
includes(arr, x) == \E i \in 1..Len(arr) : arr[i] = x

\* Array.prototype.indexOf (0-based, -1 when absent)
indexOf(arr, x) ==
  IF includes(arr, x)
  THEN (CHOOSE i \in 1..Len(arr) : arr[i] = x /\ \A j \in 1..(i-1) : arr[j] # x) - 1
  ELSE -1

Sgn(x) == IF x < 0 THEN -1 ELSE IF x > 0 THEN 1 ELSE 0

\* the characters of the model
Chars ==
  {Lower[i] : i \in 1..26} \cup {Upper[i] : i \in 1..26}
    \cup {Digits[i] : i \in 1..10}
    \cup {"|", "&", "<", ">", "\"", "'", ";", "-", " ", ".", "ENDASH", "ELLIPSIS",
            "KELVIN"}

\* UTF-16 code unit of a character
CodeUnit ==
  [ch \in Chars |->
     IF includes(Lower, ch) THEN 97 + indexOf(Lower, ch)
     ELSE IF includes(Upper, ch) THEN 65 + indexOf(Upper, ch)
     ELSE IF includes(Digits, ch) THEN 48 + indexOf(Digits, ch)
     ELSE CASE ch = "|" -> 124
            [] ch = "&" -> 38
            [] ch = "<" -> 60
            [] ch = ">" -> 62
            [] ch = "\"" -> 34
            [] ch = "'" -> 39
            [] ch = ";" -> 59
            [] ch = "-" -> 45
            [] ch = " " -> 32
            [] ch = "." -> 46
            [] ch = "ENDASH" -> 8211
            [] ch = "ELLIPSIS" -> 8230
            [] ch = "KELVIN" -> 8490]

\* Collation weights of a character (root collation of the Unicode
\* Collation Algorithm, which String.prototype.localeCompare applies by
\* default): letters follow punctuation and digits and are ordered
\* alphabetically whatever their case (primary level); at equal primary
\* weights a lower-case letter precedes its upper-case form (tertiary
\* level).  U+212A KELVIN SIGN is canonically equivalent to "K" and has the
\* weights of "K".  Characters that are not letters keep their code order.
Primary ==
  [ch \in Chars |->
     IF includes(Lower, ch) THEN 1000 + indexOf(Lower, ch)
     ELSE IF includes(Upper, ch) THEN 1000 + indexOf(Upper, ch)
     ELSE IF ch = "KELVIN" THEN 1000 + indexOf(Upper, "K")
     ELSE IF includes(Digits, ch) THEN 500 + indexOf(Digits, ch)
     ELSE CodeUnit[ch]]

Tertiary ==
  [ch \in Chars |-> IF includes(Upper, ch) \/ ch = "KELVIN" THEN 1 ELSE 0]

\* lexicographic comparison of the weights of two strings from position i:
\* -1, 0 or 1
RECURSIVE CmpWeights(_, _, _, _)
CmpWeights(a, b, i, weight) ==
  IF i > Len(a) THEN (IF i > Len(b) THEN 0 ELSE -1)
  ELSE IF i > Len(b) THEN 1
  ELSE IF weight[a[i]] < weight[b[i]] THEN -1
  ELSE IF weight[a[i]] > weight[b[i]] THEN 1
  ELSE CmpWeights(a, b, i + 1, weight)

\* String.prototype.localeCompare, reduced to its sign
localeCompare(a, b) ==
  LET p == CmpWeights(a, b, 1, Primary)
  IN  IF p # 0 THEN p ELSE CmpWeights(a, b, 1, Tertiary)

\* the comparison Array.prototype.sort makes without a comparator:
\* strings by UTF-16 code units
CmpDefault(a, b) == CmpWeights(a, b, 1, CodeUnit)

\* (a, b) => a - b
CmpNumber(a, b) == Sgn(a - b)

\* Number -> decimal string (template literal), n >= 0
RECURSIVE NumberToString(_)
NumberToString(n) ==
  IF n < 10 THEN <<Digits[n + 1]>>
  ELSE NumberToString(n \div 10) \o <<Digits[(n % 10) + 1]>>

----------------------------------------------------------------------------
(* page.tsx: names used by the page *)

Anatomie == <<"A","n","a","t","o","m","i","e">>
Histologie == <<"H","i","s","t","o","l","o","g","i","e">>
Physiologie == <<"P","h","y","s","i","o","l","o","g","i","e">>
Biochimie == <<"B","i","o","c","h","i","m","i","e">>
Biophysique == <<"B","i","o","p","h","y","s","i","q","u","e">>

\* const order = [...] of groupedBySubDisc and buildSvgDataForModule
order == <<Anatomie, Histologie, Physiologie, Biochimie, Biophysique>>

\* the separator of the aggregation key `${e.m}|||${e.sd}|||${e.c}`
KeySep == <<"|","|","|">>

----------------------------------------------------------------------------
(* page.tsx: the comparators handed to Array.prototype.sort *)

\* filteredData: module, then sub_discipline, then count DESC
CmpCoursEntry(a, b) ==
  IF a.module_name # b.module_name
  THEN localeCompare(a.module_name, b.module_name)
  ELSE IF a.sub_discipline # b.sub_discipline
  THEN localeCompare(a.sub_discipline, b.sub_discipline)
  ELSE Sgn(b.question_count - a.question_count)

\* CmpModuleInfo with its operands exchanged (totals ascending)
CmpModuleInfoAscending(a, b) == Sgn(a.total_questions - b.total_questions)

\* modules: (a, b) => b.total_questions - a.total_questions
CmpModuleInfo(a, b) == Sgn(b.total_questions - a.total_questions)

\* CmpSubDisc with the results for an unlisted name exchanged
CmpSubDiscUnlistedFirst(a, b) ==
  LET ia == indexOf(order, a)
      ib == indexOf(order, b)
  IN  IF ia = -1 /\ ib = -1 THEN localeCompare(a, b)
      ELSE IF ia = -1 THEN -1
      ELSE IF ib = -1 THEN 1
      ELSE Sgn(ia - ib)

\* groupedBySubDisc / buildSvgDataForModule: ([a], [b]) => ... on the names
CmpSubDisc(a, b) ==
  LET ia == indexOf(order, a)
      ib == indexOf(order, b)
  IN  IF ia = -1 /\ ib = -1 THEN localeCompare(a, b)
      ELSE IF ia = -1 THEN 1
      ELSE IF ib = -1 THEN -1
      ELSE Sgn(ia - ib)

\* the comparator of each call of Array.prototype.sort
Compare(kind, a, b) ==
  CASE kind = "number"     -> CmpNumber(a, b)
    [] kind = "default"    -> CmpDefault(a, b)
    [] kind = "coursEntry" -> CmpCoursEntry(a, b)
    [] kind = "moduleInfo" -> CmpModuleInfo(a, b)
    [] kind = "subDisc"    -> CmpSubDisc(a[1], b[1])

\* the results of the comparator on every pair of elements of seq
CompareAll(seq, kind) ==
  [i \in 1..Len(seq) |-> [j \in 1..Len(seq) |-> Compare(kind, seq[i], seq[j])]]

\* ECMAScript "consistent comparison function" for the elements compared in c
Consistent(c) ==
  \A i, j \in DOMAIN c :
    /\ c[i][j] = 0 - c[j][i]
    /\ \A k \in DOMAIN c : (c[i][j] <= 0 /\ c[j][k] <= 0) => c[i][k] <= 0

\* the stable sorted order of seq, c being the comparisons of its elements
StableOrder(seq, c) ==
  LET n    == Len(seq)
      rank == [i \in 1..n |->
                 1 + Cardinality({j \in 1..n :
                        c[j][i] < 0 \/ (c[j][i] = 0 /\ j < i)})]
  IN  [p \in 1..n |-> seq[CHOOSE i \in 1..n : rank[i] = p]]

\* Array.prototype.sort with a consistent comparator: the result is sorted
\* and stable (ES2019), whatever the algorithm
StableSort(seq, kind) == StableOrder(seq, CompareAll(seq, kind))

\* Array.prototype.sort: with a comparator that is not consistent for the
\* elements the order is implementation-defined, any permutation
SortOutcomes(seq, kind) ==
  LET c == CompareAll(seq, kind)
  IN  IF Consistent(c)
      THEN {StableOrder(seq, c)}
      ELSE {[i \in 1..Len(seq) |-> seq[p[i]]] : p \in Permutations(1..Len(seq))}

----------------------------------------------------------------------------
(* page.tsx: filteredData (filtering + aggregation) *)

\* matchEntry without the "empty selects all" case of the exam types
matchEntryNoSentinel(e, types, promos) ==
  LET matchType  == includes(types, e.et)
      matchPromo == Len(promos) = 0 \/ includes(promos, e.ey)
  IN  matchType /\ matchPromo

\* the callback of rawEntries.filter
matchEntry(e, types, promos) ==
  LET matchType  == Len(types) = 0 \/ includes(types, e.et)
      matchPromo == Len(promos) = 0 \/ includes(promos, e.ey)
  IN  matchType /\ matchPromo

\* 1. Filter raw entries
filtered(raw, types, promos) ==
  SelectSeq(raw, LAMBDA e : matchEntry(e, types, promos))

\* const key = `${e.m}|||${e.sd}|||${e.c}`
aggKey(e) == e.m \o KeySep \o e.sd \o KeySep \o e.c

\* Set.prototype.add on a Set kept in insertion order
setAdd(set, x) == IF includes(set, x) THEN set ELSE Append(set, x)

\* aggMap with item.count = e.cnt for item.count += e.cnt
RECURSIVE aggMapLastCount(_, _)
aggMapLastCount(flt, n) ==
  IF n = 0 THEN <<>>
  ELSE LET prev == aggMapLastCount(flt, n - 1)
           e    == flt[n]
           key  == aggKey(e)
           has  == \E i \in 1..Len(prev) : prev[i].key = key
           map  == IF has THEN prev
                   ELSE Append(prev, [key |-> key, m |-> e.m, sd |-> e.sd,
                                      c |-> e.c, years |-> <<>>, count |-> 0])
           at   == CHOOSE i \in 1..Len(map) : map[i].key = key
       IN  [map EXCEPT ![at].years = setAdd(@, e.ey),
                       ![at].count = e.cnt]

\* 2. Aggregate: the values of aggMap, in insertion order, after the first
\* n entries of the filtered list
RECURSIVE aggMap(_, _)
aggMap(flt, n) ==
  IF n = 0 THEN <<>>
  ELSE LET prev == aggMap(flt, n - 1)
           e    == flt[n]
           key  == aggKey(e)
           has  == \E i \in 1..Len(prev) : prev[i].key = key
           map  == IF has THEN prev
                   ELSE Append(prev, [key |-> key, m |-> e.m, sd |-> e.sd,
                                      c |-> e.c, years |-> <<>>, count |-> 0])
           at   == CHOOSE i \in 1..Len(map) : map[i].key = key
       IN  [map EXCEPT ![at].years = setAdd(@, e.ey),
                       ![at].count = @ + e.cnt]

\* 3. Convert to CoursEntry format
toCoursEntry(v) ==
  [module_name     |-> v.m,
   sub_discipline  |-> v.sd,
   cours_topic     |-> v.c,
   question_count  |-> v.count,
   years_appeared  |-> Len(v.years),
   exam_years_list |-> StableSort(v.years, "number")]

\* the values the useMemo of filteredData can return
filteredDataOutcomes(raw, types, promos) ==
  IF Len(raw) = 0 THEN {<<>>}
  ELSE LET flt == filtered(raw, types, promos)
           agg == aggMap(flt, Len(flt))
       IN  SortOutcomes([i \in 1..Len(agg) |-> toCoursEntry(agg[i])],
                        "coursEntry")

----------------------------------------------------------------------------
(* page.tsx: derived view data *)

\* moduleMap after the first n entries of fd, in insertion order
RECURSIVE moduleMap(_, _)
moduleMap(fd, n) ==
  IF n = 0 THEN <<>>
  ELSE LET prev == moduleMap(fd, n - 1)
           d    == fd[n]
           has  == \E i \in 1..Len(prev) : prev[i].name = d.module_name
           map  == IF has THEN prev
                   ELSE Append(prev, [name |-> d.module_name, subs |-> <<>>,
                                      totalQ |-> 0])
           at   == CHOOSE i \in 1..Len(map) : map[i].name = d.module_name
       IN  [map EXCEPT ![at].subs = setAdd(@, d.sub_discipline),
                       ![at].totalQ = @ + d.question_count]

\* const modules: ModuleInfo[] = useMemo(...)
modulesOf(fd) ==
  LET mm == moduleMap(fd, Len(fd))
  IN  StableSort([i \in 1..Len(mm) |->
                    [module_name     |-> mm[i].name,
                     sub_disciplines |-> StableSort(mm[i].subs, "default"),
                     total_questions |-> mm[i].totalQ]],
                 "moduleInfo")

\* const filteredByModule = useMemo(...)
filteredByModule ==
  SelectSeq(filteredData, LAMBDA d : d.module_name = selectedModule)

\* groups: Record<string, CoursEntry[]> after the first n entries, as
\* Object.entries lists it (insertion order of the keys). The names are
\* taken not to be array indices ("0", "1", ...), which Object.entries lists
\* first, nor properties of Object.prototype ("constructor", ...), which
\* groups[name] finds before any entry is stored.
RECURSIVE groupsOf(_, _)
groupsOf(entries, n) ==
  IF n = 0 THEN <<>>
  ELSE LET prev == groupsOf(entries, n - 1)
           d    == entries[n]
           has  == \E i \in 1..Len(prev) : prev[i][1] = d.sub_discipline
           grp  == IF has THEN prev ELSE Append(prev, <<d.sub_discipline, <<>>>>)
           at   == CHOOSE i \in 1..Len(grp) : grp[i][1] = d.sub_discipline
       IN  [grp EXCEPT ![at][2] = Append(@, d)]

\* Object.entries(groups).sort(...)
sortedGroups(entries) == StableSort(groupsOf(entries, Len(entries)), "subDisc")

\* const groupedBySubDisc = useMemo(...)
groupedBySubDisc == sortedGroups(filteredByModule)

\* the exam years of fd, ascending
examYears(fd) ==
  LET ys == UNION {{d.exam_years_list[i] : i \in 1..Len(d.exam_years_list)} :
                     d \in {fd[k] : k \in 1..Len(fd)}}
  IN  ys

\* const totalExamYears = useMemo(...)
totalExamYears == Cardinality(examYears(filteredData))

\* const examYearsRange = useMemo(...): `${first}–${last}` or ""
examYearsRange ==
  LET ys == examYears(filteredData)
  IN  IF ys = {} THEN <<>>
      ELSE LET lo == CHOOSE y \in ys : \A z \in ys : y <= z
               hi == CHOOSE y \in ys : \A z \in ys : z <= y
           IN  NumberToString(lo) \o <<"ENDASH">> \o NumberToString(hi)

\* entries.reduce((sum, e) => sum + e.question_count, 0) over the first n
RECURSIVE sumQuestions(_, _)
sumQuestions(entries, n) ==
  IF n = 0 THEN 0
  ELSE sumQuestions(entries, n - 1) + entries[n].question_count

\* const buildSvgDataForModule = useCallback(...)
buildSvgDataForModule(modName, allowedSubDiscs) ==
  LET byModule   == SelectSeq(filteredData, LAMBDA d : d.module_name = modName)
      modEntries == IF Len(allowedSubDiscs) > 0
                    THEN SelectSeq(byModule,
                           LAMBDA d : includes(allowedSubDiscs, d.sub_discipline))
                    ELSE byModule
      sorted     == sortedGroups(modEntries)
  IN  [moduleName     |-> modName,
       totalQuestions |-> sumQuestions(modEntries, Len(modEntries)),
       examYearsRange |-> examYearsRange,
       totalExamYears |-> totalExamYears,
       subDiscGroups  |->
         [g \in 1..Len(sorted) |->
            [sub_discipline |-> sorted[g][1],
             entries |-> [k \in 1..Len(sorted[g][2]) |->
                            [cours_topic    |-> sorted[g][2][k].cours_topic,
                             question_count |-> sorted[g][2][k].question_count]]]]]

----------------------------------------------------------------------------
(* tendance-svg-export.ts *)

W == 1080
H == 1080
PAD == 48
MAX_COURSES == 5
footerReserve == 60
groupHeaderH == 32
courseRowH == 36
groupGap == 20
\* truncateText(entry.cours_topic, 50)
maxChars == 50
\* Math.max(2, ...) of dynamicMaxCourses
minCourses == 2
\* Math.max(8, ...) of barPct
minBarPct == 8

Min(a, b) == IF a < b THEN a ELSE b
Max(a, b) == IF a > b THEN a ELSE b

\* String.prototype.replace(/ch/g, rep)
RECURSIVE replaceAll(_, _, _)
replaceAll(text, ch, rep) ==
  IF text = <<>> THEN <<>>
  ELSE (IF Head(text) = ch THEN rep ELSE <<Head(text)>>)
         \o replaceAll(Tail(text), ch, rep)

\* esc with the replacement of & made last
escAmpersandLast(text) ==
  replaceAll(
    replaceAll(
      replaceAll(
        replaceAll(
          replaceAll(text, "<", <<"&","l","t",";">>),
          ">", <<"&","g","t",";">>),
        "\"", <<"&","q","u","o","t",";">>),
      "'", <<"&","a","p","o","s",";">>),
    "&", <<"&","a","m","p",";">>)

\* function esc(text)
esc(text) ==
  replaceAll(
    replaceAll(
      replaceAll(
        replaceAll(
          replaceAll(text, "&", <<"&","a","m","p",";">>),
          "<", <<"&","l","t",";">>),
        ">", <<"&","g","t",";">>),
      "\"", <<"&","q","u","o","t",";">>),
    "'", <<"&","a","p","o","s",";">>)

\* truncateText keeping maxChars characters before the ellipsis
truncateTextKeepAll(text, n) ==
  IF Len(text) <= n THEN text
  ELSE SubSeq(text, 1, n) \o <<"ELLIPSIS">>

\* function truncateText(text, maxChars)
truncateText(text, n) ==
  IF Len(text) <= n THEN text
  ELSE SubSeq(text, 1, n - 1) \o <<"ELLIPSIS">>

\* SUB_DISC_ACCENT[name] || BRAND_COLOR
accentOf(name) ==
  CASE name = Anatomie    -> "#f43f5e"
    [] name = Histologie  -> "#a855f7"
    [] name = Physiologie -> "#3b82f6"
    [] name = Biochimie   -> "#10b981"
    [] name = Biophysique -> "#f59e0b"
    [] OTHER              -> "#09b2ac"

\* the y cursor when the groups start: PAD, += 44, += 60, += 28
yGroups == PAD + 44 + 60 + 28

availableHeight == H - yGroups - footerReserve

contentW == W - PAD * 2

\* subDiscGroups.reduce((sum, g) => sum + Math.min(g.entries.length, MAX_COURSES), 0)
RECURSIVE totalCourseSlots(_, _)
totalCourseSlots(groups, n) ==
  IF n = 0 THEN 0
  ELSE totalCourseSlots(groups, n - 1) + Min(Len(groups[n].entries), MAX_COURSES)

\* spaceForCourses for numGroups groups
spaceForCourses(numGroups) ==
  availableHeight - numGroups * groupHeaderH - Max(0, numGroups - 1) * groupGap

\* Math.floor(spaceForCourses / courseRowH / numGroups), numGroups > 0.
\* The quotient of the two divisions is an integer exactly when the exact
\* quotient is, and is otherwise at least 1/(36 numGroups) away from one, so
\* the floating-point floor is the exact floor.
floorSlots(numGroups) ==
  spaceForCourses(numGroups) \div (courseRowH * numGroups)

\* the cap falling back to the minimum when there is no slot to share
dynamicMaxCoursesMin(groups) ==
  IF totalCourseSlots(groups, Len(groups)) > 0
  THEN Max(minCourses, floorSlots(Len(groups)))
  ELSE minCourses

\* const dynamicMaxCourses = totalCourseSlots > 0 ? ... : MAX_COURSES
dynamicMaxCourses(groups) ==
  IF totalCourseSlots(groups, Len(groups)) > 0
  THEN Max(minCourses, floorSlots(Len(groups)))
  ELSE MAX_COURSES

\* const effectiveMax = Math.min(MAX_COURSES, dynamicMaxCourses)
effectiveMax(groups) == Min(MAX_COURSES, dynamicMaxCourses(groups))

\* Math.max(8, (q / maxQ) * 100) as the exact fraction num/den, den > 0
barPct(q, maxQ) ==
  LET num == IF maxQ > 0 THEN q * 100 ELSE 0 - q * 100
      den == IF maxQ > 0 THEN maxQ ELSE 0 - maxQ
  IN  IF num >= minBarPct * den THEN [num |-> num, den |-> den]
      ELSE [num |-> minBarPct, den |-> 1]

\* Math.round((contentW - 80) * (barPct / 100)), on the exact fraction
barWidth(pct) ==
  (2 * (contentW - 80) * pct.num + 100 * pct.den) \div (200 * pct.den)

\* one identifier for the bar gradients of all groups
barGradIdShared(i) == <<"bar-grad", 0>>

\* `bar-grad-${i}`: the identifier of the bar gradient of the group of index i
barGradId(i) == <<"bar-grad", i>>

\* displayEntries keeping the last entries: group.entries.slice(-effectiveMax)
displayEntriesLast(group, cap) ==
  SubSeq(group.entries, Max(1, Len(group.entries) - cap + 1), Len(group.entries))

\* const displayEntries = group.entries.slice(0, effectiveMax)
displayEntries(group, cap) ==
  SubSeq(group.entries, 1, Min(cap, Len(group.entries)))

\* maxQ taken from the last displayed entry
maxQOfLast(shown) ==
  IF Len(shown) > 0 /\ shown[Len(shown)].question_count # 0
  THEN shown[Len(shown)].question_count ELSE 1

\* const maxQ = displayEntries[0]?.question_count || 1
maxQ(shown) ==
  IF Len(shown) > 0 /\ shown[1].question_count # 0
  THEN shown[1].question_count ELSE 1

\* page.tsx: const safeBase = entries[0]?.question_count || 1 and
\* const barWidth = Math.max(8, (entry.question_count / safeBase) * 100)
displayBarWidth(entries, idx) ==
  barPct(entries[idx].question_count, maxQ(entries))

\* subDiscGroups.forEach((group, gi) => ...) after the first n groups:
\* the parts pushed to bodyParts and the y cursor
RECURSIVE renderGroups(_, _, _)
renderGroups(groups, n, cap) ==
  IF n = 0 THEN [bodyParts |-> <<>>, y |-> yGroups]
  ELSE
    LET prev  == renderGroups(groups, n - 1, cap)
        group == groups[n]
        gi    == n - 1
        shown == displayEntries(group, cap)
        maxq  == maxQ(shown)
        header == [kind   |-> "groupHeader",
                   group  |-> gi,
                   y      |-> prev.y + 20,
                   accent |-> accentOf(group.sub_discipline),
                   text   |-> esc(group.sub_discipline),
                   topX   |-> PAD + 34 + Len(group.sub_discipline) * 10 + 12,
                   top    |-> Len(shown)]
        yRows == prev.y + groupHeaderH
        rows  == [idx \in 1..Len(shown) |->
                    LET entry == shown[idx]
                        pct   == barPct(entry.question_count, maxq)
                    IN  [kind     |-> "row",
                         group    |-> gi,
                         y        |-> yRows + (idx - 1) * courseRowH,
                         rank     |-> idx,
                         barAreaW |-> contentW - 80,
                         barPct   |-> pct,
                         barW     |-> barWidth(pct),
                         fill     |-> barGradId(gi),
                         label    |-> esc(truncateText(entry.cours_topic, maxChars)),
                         count    |-> entry.question_count]]
        yEnd  == yRows + Len(shown) * courseRowH
    IN  [bodyParts |-> prev.bodyParts \o <<header>> \o rows,
         y |-> IF gi < Len(groups) - 1 THEN yEnd + groupGap ELSE yEnd]

\* no document generated yet
NoDoc == [generated |-> FALSE]

\* no file downloaded yet, no error caught
NoDownload == [done |-> FALSE, caught |-> "none"]

\* the call named by `thrower` threw; the catch block logged the error
Caught(thrower) == [done |-> FALSE, caught |-> thrower]

\* export function generateTendanceSVG(opts): the document, as its parts
generateTendanceSVG(o) ==
  LET groups == o.subDiscGroups
      cap    == effectiveMax(groups)
      body   == renderGroups(groups, Len(groups), cap)
  IN  [generated |-> TRUE,
       gradients |-> <<"bg-grad", "glow-tr", "glow-bl", "divider-grad">>,
       barGradients |-> [i \in 1..Len(groups) |->
                           [id |-> barGradId(i - 1),
                            accent |-> accentOf(groups[i].sub_discipline)]],
       moduleName     |-> esc(o.moduleName),
       totalQuestions |-> o.totalQuestions,
       totalExamYears |-> o.totalExamYears,
       promos         |-> esc(o.examYearsRange),
       effectiveMax   |-> cap,
       bodyParts      |-> body.bodyParts,
       y              |-> body.y,
       footerRange    |-> esc(o.examYearsRange)]

----------------------------------------------------------------------------
(* Inputs: the payloads of /api/tendance *)

EMD1 == <<"E","M","D","1">>
Rattrapage == <<"R","a","t","t","r","a","p","a","g","e">>

AllExamTypes == <<EMD1, Rattrapage>>
AllExamYears == <<2021, 2022>>

Entry(m, sd, c, ey, et, cnt) ==
  [m |-> m, sd |-> sd, c |-> c, ey |-> ey, et |-> et, cnt |-> cnt]

SeqsUpTo(S, n) == UNION {[1..k -> S] : k \in 0..n}

Payloads(pool) ==
  {[data |-> d, availableExamTypes |-> AllExamTypes,
    availableExamYears |-> AllExamYears] : d \in SeqsUpTo(pool, MaxEntries)}

\* entries whose names hold the separator character or are empty
PoolKeys ==
  { Entry(<<"K">>, <<>>,    <<"|">>, 2022, EMD1,       1),
    Entry(<<"K">>, <<"|">>, <<>>,    2021, EMD1,       2),
    Entry(<<"K">>, <<>>,    <<"|">>, 2021, Rattrapage, 3),
    Entry(<<"K">>, <<"|">>, <<"|">>, 2022, Rattrapage, 1),
    Entry(<<"b">>, <<>>,    <<>>,    2021, EMD1,       2) }

\* entries of one sub-discipline with equal and unequal counts, and two
\* module names that localeCompare finds equal
PoolRank ==
  { Entry(<<"K">>,      Histologie, <<"x">>, 2021, EMD1,       1),
    Entry(<<"K">>,      Histologie, <<"y">>, 2021, EMD1,       2),
    Entry(<<"K">>,      Histologie, <<"z">>, 2021, EMD1,       2),
    Entry(<<"KELVIN">>, Histologie, <<"y">>, 2021, EMD1,       3),
    Entry(<<"K">>,      Histologie, <<"x">>, 2022, Rattrapage, 2),
    Entry(<<"b">>,      Biochimie,  <<"x">>, 2022, Rattrapage, 3) }

\* entries of listed and unlisted sub-disciplines
PoolOrder ==
  { Entry(<<"K">>, Histologie, <<"x">>, 2021, EMD1,       1),
    Entry(<<"K">>, Biochimie,  <<"x">>, 2022, EMD1,       2),
    Entry(<<"K">>, <<"a">>,    <<"x">>, 2021, EMD1,       1),
    Entry(<<"K">>, <<"B">>,    <<"x">>, 2022, Rattrapage, 1),
    Entry(<<"b">>, <<"B">>,    <<"x">>, 2021, Rattrapage, 1) }

\* entries of three modules that the filters remove one by one
PoolTabs ==
  { Entry(<<"b">>, Histologie, <<"x">>, 2022, Rattrapage, 1),
    Entry(<<"K">>, Histologie, <<"x">>, 2021, EMD1,       3),
    Entry(<<"m">>, Histologie, <<"x">>, 2021, EMD1,       2),
    Entry(<<"m">>, Biochimie,  <<"x">>, 2022, EMD1,       2) }

\* state of the page after its first render, the fetch pending
InitWith(payloads) ==
  /\ response \in payloads
  /\ loading = TRUE
  /\ rawEntries = <<>>
  /\ availableExamTypes = <<>>
  /\ availablePromos = <<>>
  /\ selectedExamTypes = <<>>
  /\ selectedPromos = <<>>
  /\ selectedModule = <<>>
  /\ filteredData = <<>>
  /\ modules = <<>>
  /\ opts = [subDiscGroups |-> <<>>]
  /\ doc = NoDoc
  /\ exporting = FALSE
  /\ exportDropdownOpen = FALSE
  /\ exportStep = "module"
  /\ exportSelectedModule = <<>>
  /\ exportSelectedSubDiscs = <<>>
  /\ downloaded = NoDownload
  /\ pc = "getSession"
  /\ aborted = FALSE
  /\ redirected = FALSE
  /\ error = "none"

\* the page fed with a payload of entries of the pool
InitPage(pool) == InitWith(Payloads(pool))

----------------------------------------------------------------------------
(* page.tsx: the fetch, the effects and the handlers *)

\* the condition under which the selectedModule effect sets state
effectPending ==
  \/ Len(modules) > 0
       /\ ~ \E i \in 1..Len(modules) : modules[i].module_name = selectedModule
  \/ Len(modules) = 0 /\ selectedModule # <<>>

\* React runs pending effects before it handles the next event, and the
\* filters and tabs are rendered only once loading is false
idle == ~loading /\ ~effectPending

\* the state updates of fetchData once the payload is parsed, with the
\* setLoading(false) of its finally block, and the memos of the next render
applyResponse ==
  /\ rawEntries' = response.data
  /\ availableExamTypes' = response.availableExamTypes
  /\ availablePromos' = response.availableExamYears
  /\ selectedExamTypes' = response.availableExamTypes
  /\ selectedPromos' = response.availableExamYears
  /\ selectedModule' = IF Len(response.data) > 0 THEN response.data[1].m
                        ELSE selectedModule
  /\ loading' = FALSE
  /\ filteredData' \in filteredDataOutcomes(rawEntries', selectedExamTypes',
                                             selectedPromos')
  /\ modules' = modulesOf(filteredData')

\* fetchData resolving with the payload (not aborted, session present)
FetchDone ==
  /\ loading
  /\ pc = "getSession"
  /\ ~aborted
  /\ applyResponse
  /\ pc' = "done"
  /\ UNCHANGED <<response, opts, doc, exportVars, aborted, redirected, error>>

----------------------------------------------------------------------------
(* page.tsx: fetchData, one step for each of its awaits *)

\* a signal that never reads as aborted
signalNeverAborted == FALSE

\* controller.signal.aborted
signalAborted == aborted

\* what fetchData leaves alone when it sets no data
dataVars == <<response, rawEntries, availableExamTypes, availablePromos,
              selectedExamTypes, selectedPromos, selectedModule, filteredData,
              modules>>

\* the names and messages of the errors an await rejects with
Rejections ==
  { [name |-> "AbortError", message |-> "The operation was aborted."],
    [name |-> "TypeError",  message |-> "Failed to fetch"] }

\* catch (err) { if (err.name === "AbortError") return;
\*               if (!controller.signal.aborted) setError(err.message); }
\* finally { if (!controller.signal.aborted) setLoading(false); }
catchAndFinally(err) ==
  /\ error' = IF err.name # "AbortError" /\ ~signalAborted THEN err.message
              ELSE error
  /\ loading' = IF ~signalAborted THEN FALSE ELSE loading
  /\ pc' = "done"
  /\ UNCHANGED <<dataVars, aborted, redirected, svgVars>>

\* return () => controller.abort(): the cleanup of the effect
Abort ==
  /\ ~aborted
  /\ aborted' = TRUE
  /\ UNCHANGED <<pageVars, pc, redirected, error, svgVars>>

\* await supabase.auth.getSession() resolves, with a session or without
SessionResolved(session) ==
  /\ pc = "getSession"
  /\ IF signalAborted
     THEN pc' = "done" /\ UNCHANGED redirected
     ELSE IF ~session
          THEN pc' = "done" /\ redirected' = TRUE
          ELSE pc' = "fetch" /\ UNCHANGED redirected
  /\ UNCHANGED <<pageVars, aborted, error, svgVars>>

\* await supabase.auth.getSession() rejects: the await is outside the try
\* block, the promise of fetchData rejects and nothing is set
SessionRejected ==
  /\ pc = "getSession"
  /\ pc' = "rejected"
  /\ UNCHANGED <<pageVars, aborted, redirected, error, svgVars>>

\* await fetch("/api/tendance", ...) resolves; if (!res.ok) throw new Error(...)
FetchResolved(ok) ==
  /\ pc = "fetch"
  /\ IF ok
     THEN pc' = "json" /\ UNCHANGED <<pageVars, aborted, redirected, error, svgVars>>
     ELSE catchAndFinally([name |-> "Error",
                           message |-> "Failed to fetch tendance data"])

\* await fetch(...) rejects
FetchRejected(err) ==
  /\ pc = "fetch"
  /\ catchAndFinally(err)

\* await res.json() resolves with the payload
JsonResolved ==
  /\ pc = "json"
  /\ IF signalAborted
     THEN UNCHANGED pageVars
     ELSE applyResponse /\ UNCHANGED response
  /\ pc' = "done"
  /\ UNCHANGED <<aborted, redirected, error, svgVars>>

\* await res.json() rejects
JsonRejected(err) ==
  /\ pc = "json"
  /\ catchAndFinally(err)

NextFetch ==
  \/ Abort
  \/ \E session \in BOOLEAN : SessionResolved(session)
  \/ SessionRejected
  \/ \E ok \in BOOLEAN : FetchResolved(ok)
  \/ \E err \in Rejections : FetchRejected(err)
  \/ JsonResolved
  \/ \E err \in Rejections : JsonRejected(err)

\* the effect selecting the last module of the list for the first
ModuleValidityEffectLast ==
  /\ ~loading
  /\ \/ /\ Len(modules) > 0
        /\ ~ \E i \in 1..Len(modules) : modules[i].module_name = selectedModule
        /\ selectedModule' = modules[Len(modules)].module_name
     \/ /\ Len(modules) = 0
        /\ selectedModule # <<>>
        /\ selectedModule' = <<>>
  /\ UNCHANGED <<response, loading, rawEntries, availableExamTypes,
                 availablePromos, selectedExamTypes, selectedPromos,
                 filteredData, modules, opts, doc, exportVars, fetchVars>>

\* useEffect(..., [modules, selectedModule]): keep selectedModule valid
ModuleValidityEffect ==
  /\ ~loading
  /\ \/ /\ Len(modules) > 0
        /\ ~ \E i \in 1..Len(modules) : modules[i].module_name = selectedModule
        /\ selectedModule' = modules[1].module_name
     \/ /\ Len(modules) = 0
        /\ selectedModule # <<>>
        /\ selectedModule' = <<>>
  /\ UNCHANGED <<response, loading, rawEntries, availableExamTypes,
                 availablePromos, selectedExamTypes, selectedPromos,
                 filteredData, modules, opts, doc, exportVars, fetchVars>>

\* a handler that sets the selected exam types
setSelectedExamTypes(types) ==
  /\ idle
  /\ selectedExamTypes' = types
  /\ filteredData' \in filteredDataOutcomes(rawEntries, types, selectedPromos)
  /\ modules' = modulesOf(filteredData')
  /\ UNCHANGED <<response, loading, rawEntries, availableExamTypes,
                 availablePromos, selectedPromos, selectedModule, opts, doc, exportVars, fetchVars>>

\* a handler that sets the selected exam years
setSelectedPromos(promos) ==
  /\ idle
  /\ selectedPromos' = promos
  /\ filteredData' \in filteredDataOutcomes(rawEntries, selectedExamTypes, promos)
  /\ modules' = modulesOf(filteredData')
  /\ UNCHANGED <<response, loading, rawEntries, availableExamTypes,
                 availablePromos, selectedExamTypes, selectedModule, opts, doc, exportVars, fetchVars>>

\* prev.includes(x) ? prev.filter((t) => t !== x) : [...prev, x]
toggled(prev, x) ==
  IF includes(prev, x) THEN SelectSeq(prev, LAMBDA t : t # x)
  ELSE Append(prev, x)

\* String.prototype.startsWith
startsWith(t, prefix) ==
  Len(t) >= Len(prefix) /\ SubSeq(t, 1, Len(prefix)) = prefix

toggleType ==
  \E i \in 1..Len(availableExamTypes) :
    setSelectedExamTypes(toggled(selectedExamTypes, availableExamTypes[i]))

togglePromo ==
  \E i \in 1..Len(availablePromos) :
    setSelectedPromos(toggled(selectedPromos, availablePromos[i]))

selectEMDOnly ==
  setSelectedExamTypes(
    SelectSeq(availableExamTypes, LAMBDA t : startsWith(t, <<"E","M","D">>)))

selectRattrapageOnly ==
  setSelectedExamTypes(SelectSeq(availableExamTypes, LAMBDA t : t = Rattrapage))

selectAllTypes == setSelectedExamTypes(availableExamTypes)

selectAllPromos == setSelectedPromos(availablePromos)

deselectAllPromos == setSelectedPromos(<<>>)

\* a module tab: onClick={() => setSelectedModule(m.module_name)}
clickModuleTab ==
  /\ idle
  /\ \E i \in 1..Len(modules) : selectedModule' = modules[i].module_name
  /\ UNCHANGED <<response, loading, rawEntries, availableExamTypes,
                 availablePromos, selectedExamTypes, selectedPromos,
                 filteredData, modules, opts, doc, exportVars, fetchVars>>

NextPage ==
  \/ FetchDone
  \/ ModuleValidityEffect
  \/ toggleType
  \/ togglePromo
  \/ selectEMDOnly
  \/ selectRattrapageOnly
  \/ selectAllTypes
  \/ selectAllPromos
  \/ deselectAllPromos
  \/ clickModuleTab

----------------------------------------------------------------------------
(* page.tsx: the export panel *)

\* const exportModuleSubDiscs = useMemo(...)
exportModuleSubDiscs ==
  IF exportSelectedModule = <<>> THEN <<>>
  ELSE LET found == SelectSeq(modules,
                      LAMBDA m : m.module_name = exportSelectedModule)
       IN  IF Len(found) > 0 THEN found[1].sub_disciplines ELSE <<>>

\* String.prototype.toLowerCase
toLowerCase(text) ==
  [i \in 1..Len(text) |->
     IF includes(Upper, text[i]) THEN Lower[indexOf(Upper, text[i]) + 1]
     ELSE IF text[i] = "KELVIN" THEN "k"
     ELSE text[i]]

\* text.replace(/\s+/g, "-"): each run of white space becomes one "-"
RECURSIVE dashed(_)
dashed(text) ==
  IF text = <<>> THEN <<>>
  ELSE IF Head(text) = " "
       THEN IF Len(text) > 1 /\ text[2] = " " THEN dashed(Tail(text))
            ELSE <<"-">> \o dashed(Tail(text))
       ELSE <<Head(text)>> \o dashed(Tail(text))

\* `tendance-${exportSelectedModule.replace(/\s+/g, "-").toLowerCase()}.svg`
fileName(modName) ==
  <<"t","e","n","d","a","n","c","e","-">> \o toLowerCase(dashed(modName))
    \o <<".","s","v","g">>

\* the export button of the header: open or close the panel
toggleExportDropdown ==
  /\ idle
  /\ ~(exporting \/ Len(modules) = 0)
  /\ exportDropdownOpen' = ~exportDropdownOpen
  /\ exportStep' = IF ~exportDropdownOpen THEN "module" ELSE exportStep
  /\ UNCHANGED <<pageVars, fetchVars, opts, doc, exporting, exportSelectedModule,
                 exportSelectedSubDiscs, downloaded>>

\* the X of step 1: onClick={() => setExportDropdownOpen(false)}
closeModuleStep ==
  /\ idle
  /\ exportDropdownOpen
  /\ exportStep = "module"
  /\ exportDropdownOpen' = FALSE
  /\ UNCHANGED <<pageVars, fetchVars, opts, doc, exporting, exportStep,
                 exportSelectedModule, exportSelectedSubDiscs, downloaded>>

\* const handleSelectExportModule = useCallback((modName) => ...), called
\* by the module buttons of step 1
handleSelectExportModule ==
  /\ idle
  /\ exportDropdownOpen
  /\ exportStep = "module"
  /\ \E i \in 1..Len(modules) :
       /\ exportSelectedModule' = modules[i].module_name
       /\ exportSelectedSubDiscs' = modules[i].sub_disciplines
  /\ exportStep' = "subdisc"
  /\ UNCHANGED <<pageVars, fetchVars, opts, doc, exporting, exportDropdownOpen, downloaded>>

\* the arrow of step 2: onClick={() => setExportStep("module")}
backToModuleStep ==
  /\ idle
  /\ exportDropdownOpen
  /\ exportStep = "subdisc"
  /\ exportStep' = "module"
  /\ UNCHANGED <<pageVars, fetchVars, opts, doc, exporting, exportDropdownOpen,
                 exportSelectedModule, exportSelectedSubDiscs, downloaded>>

\* the X of step 2
closeSubDiscStep ==
  /\ idle
  /\ exportDropdownOpen
  /\ exportStep = "subdisc"
  /\ exportDropdownOpen' = FALSE
  /\ exportStep' = "module"
  /\ UNCHANGED <<pageVars, fetchVars, opts, doc, exporting, exportSelectedModule,
                 exportSelectedSubDiscs, downloaded>>

\* a handler of step 2 that sets the selected sub-disciplines
setExportSelectedSubDiscs(subDiscs) ==
  /\ idle
  /\ exportDropdownOpen
  /\ exportStep = "subdisc"
  /\ exportSelectedSubDiscs' = subDiscs
  /\ UNCHANGED <<pageVars, fetchVars, opts, doc, exporting, exportDropdownOpen,
                 exportStep, exportSelectedModule, downloaded>>

\* "Toutes"
selectAllExportSubDiscs == setExportSelectedSubDiscs(exportModuleSubDiscs)

\* "Aucune"
deselectAllExportSubDiscs == setExportSelectedSubDiscs(<<>>)

\* const toggleExportSubDisc = useCallback((sd) => ...), called by the
\* check boxes of exportModuleSubDiscs
toggleExportSubDisc ==
  \E i \in 1..Len(exportModuleSubDiscs) :
    setExportSelectedSubDiscs(toggled(exportSelectedSubDiscs,
                                      exportModuleSubDiscs[i]))

\* handleClickOutside: a mousedown outside the panel; the panel and its ref
\* exist once the page is loaded
handleClickOutside ==
  /\ idle
  /\ exportDropdownOpen' = FALSE
  /\ exportStep' = "module"
  /\ UNCHANGED <<pageVars, fetchVars, opts, doc, exporting, exportSelectedModule,
                 exportSelectedSubDiscs, downloaded>>

\* the condition without the test of the selected sub-disciplines
exportRefusedNoSubDiscs ==
  exporting \/ exportSelectedModule = <<>>

\* the condition under which handleExportFinal returns at once
exportRefused ==
  exporting \/ exportSelectedModule = <<>> \/ Len(exportSelectedSubDiscs) = 0

\* the finally block of handleExportFinal
\* (a variant that resets exporting and leaves the panel as it is)
exportFinallyKeepsPanel ==
  /\ exporting' = FALSE
  /\ UNCHANGED <<exportDropdownOpen, exportStep>>

\* finally { setExporting(false); setExportDropdownOpen(false);
\*           setExportStep("module"); }
exportFinally ==
  /\ exporting' = FALSE
  /\ exportDropdownOpen' = FALSE
  /\ exportStep' = "module"

\* const handleExportFinal = useCallback(() => ...), called by the export
\* button of step 2. The state updates of one call are batched: exporting
\* is true only inside the call. Each call of the try block returns or
\* throws: generateTendanceSVG may throw before there is a document,
\* downloadSVG either hands the file to the browser or throws; the error is
\* caught and logged, and the finally block runs in every case.
handleExportFinal ==
  /\ idle
  /\ exportDropdownOpen
  /\ exportStep = "subdisc"
  /\ \/ /\ exportRefused
        /\ UNCHANGED vars
     \/ /\ ~exportRefused
        /\ opts' = buildSvgDataForModule(exportSelectedModule,
                                         exportSelectedSubDiscs)
        /\ \/ /\ doc' = NoDoc
              /\ downloaded' = Caught("generateTendanceSVG")
           \/ /\ doc' = generateTendanceSVG(opts')
              /\ \/ downloaded' = [done |-> TRUE, caught |-> "none",
                                   svg |-> doc',
                                   filename |-> fileName(exportSelectedModule)]
                 \/ downloaded' = Caught("downloadSVG")
        /\ exportFinally
        /\ UNCHANGED <<pageVars, fetchVars, exportSelectedModule, exportSelectedSubDiscs>>

NextExport ==
  \/ NextPage
  \/ toggleExportDropdown
  \/ closeModuleStep
  \/ handleSelectExportModule
  \/ backToModuleStep
  \/ closeSubDiscStep
  \/ selectAllExportSubDiscs
  \/ deselectAllExportSubDiscs
  \/ toggleExportSubDisc
  \/ handleClickOutside
  \/ handleExportFinal

\* the payloads of the export panel: no entry at all, or one module with
\* two sub-disciplines that the filters tell apart; no entry is both of
\* 2021 and a Rattrapage
ExportPayloads ==
  {[data |-> d, availableExamTypes |-> AllExamTypes,
    availableExamYears |-> AllExamYears] :
     d \in {<<>>,
            <<Entry(<<"K">>, Histologie, <<"x">>, 2021, EMD1,       2),
              Entry(<<"K">>, Biochimie,  <<"x">>, 2022, Rattrapage, 1)>>}}

\* the page fed with the payloads of each pool
Spec == InitPage(PoolKeys) /\ [][NextPage]_vars

SpecRank == InitPage(PoolRank) /\ [][NextPage]_vars

SpecOrder == InitPage(PoolOrder) /\ [][NextPage]_vars

SpecTabs == InitPage(PoolTabs) /\ [][NextPage]_vars

\* the fetch effect on its own: fetchData and the cleanup of the effect
SpecFetch == InitPage(PoolKeys) /\ [][NextFetch]_vars

\* the page with its export panel
SpecExport == InitWith(ExportPayloads) /\ [][NextExport]_vars

\* payloads of one sub-discipline: two module names that localeCompare
\* finds equal, with counts that rise along the raw list, or two modules
\* of different years whose counts are all 0
RankPayloads ==
  { [data |-> <<Entry(<<"K">>,      Histologie, <<"x">>, 2021, EMD1, 1),
                Entry(<<"KELVIN">>, Histologie, <<"y">>, 2021, EMD1, 3),
                Entry(<<"K">>,      Histologie, <<"z">>, 2021, EMD1, 2)>>,
     availableExamTypes |-> <<EMD1>>,
     availableExamYears |-> <<2021>>],
    [data |-> <<Entry(<<"m">>,      Histologie, <<"x">>, 2022, EMD1, 0),
                Entry(<<"b">>,      Histologie, <<"x">>, 2021, EMD1, 0),
                Entry(<<"b">>,      Histologie, <<"y">>, 2021, EMD1, 0)>>,
     availableExamTypes |-> <<EMD1>>,
     availableExamYears |-> AllExamYears] }

\* the page with its export panel, fed with these payloads
SpecExportRank == InitWith(RankPayloads) /\ [][NextExport]_vars

----------------------------------------------------------------------------
(* generateTendanceSVG called on its own *)

\* n entries of one group, counts descending as buildSvgDataForModule
\* leaves them
CourseEntries(n) ==
  [j \in 1..n |-> [cours_topic |-> <<"c">>, question_count |-> n - j + 1]]

\* n groups: the first k with a entries each, the others with b
LayoutGroups(n, k, a, b) ==
  [g \in 1..n |-> [sub_discipline |-> IF g = 1 THEN Histologie ELSE <<"s">>,
                   entries |-> CourseEntries(IF g <= k THEN a ELSE b)]]

LayoutInputs ==
  {[moduleName     |-> <<"K">>,
    totalQuestions |-> 1,
    examYearsRange |-> <<"2","0","2","1">>,
    totalExamYears |-> 1,
    subDiscGroups  |-> LayoutGroups(n, k, a, b)] :
     n \in 0..MaxGroups, k \in 0..MaxGroups,
     a \in 0..MaxGroupEntries, b \in {0, 1, MaxGroupEntries}}

\* the characters of the texts: the five that esc replaces, and two others
TextChars == {"&", "<", ">", "\"", "'", "a", ";"}

Texts == SeqsUpTo(TextChars, MaxTextLen)

\* a course name of pad + 1 + Len(t) characters that ends with t
Padded(pad, t) == <<"c">> \o [i \in 1..pad |-> "a"] \o t

\* one group of two courses named after t: one short, one that
\* truncateText cuts inside t when t has MaxTextLen characters
TextInputs ==
  {[moduleName     |-> <<"m">> \o t,
    totalQuestions |-> 3,
    examYearsRange |-> <<"r">> \o t,
    totalExamYears |-> 1,
    subDiscGroups  |->
      <<[sub_discipline |-> <<"s">> \o t,
         entries |-> <<[cours_topic |-> Padded(0, t), question_count |-> 2],
                       [cours_topic |-> Padded(maxChars - MaxTextLen, t),
                        question_count |-> 1]>>]>>] : t \in Texts}

\* n entries with the counts of the sequence
CountEntries(counts) ==
  [j \in 1..Len(counts) |-> [cours_topic |-> <<"c">>, question_count |-> counts[j]]]

\* two groups: the counts of the first in any order, zero included
BarInputs ==
  {[moduleName     |-> <<"K">>,
    totalQuestions |-> 1,
    examYearsRange |-> <<"2","0","2","1">>,
    totalExamYears |-> 1,
    subDiscGroups  |->
      <<[sub_discipline |-> Histologie, entries |-> CountEntries(c1)],
        [sub_discipline |-> <<"s">>, entries |-> CountEntries(c2)]>>] :
     c1 \in SeqsUpTo(0..MaxCount, MaxCount),
     c2 \in {<<>>, <<0>>, <<0, 0>>, <<MaxCount, 1>>}}


\* the page before its fetch, and the options of one call
InitSvg(inputs) ==
  /\ response = [data |-> <<>>, availableExamTypes |-> AllExamTypes,
                 availableExamYears |-> AllExamYears]
  /\ loading = TRUE
  /\ rawEntries = <<>>
  /\ availableExamTypes = <<>>
  /\ availablePromos = <<>>
  /\ selectedExamTypes = <<>>
  /\ selectedPromos = <<>>
  /\ selectedModule = <<>>
  /\ filteredData = <<>>
  /\ modules = <<>>
  /\ opts \in inputs
  /\ doc = NoDoc
  /\ exporting = FALSE
  /\ exportDropdownOpen = FALSE
  /\ exportStep = "module"
  /\ exportSelectedModule = <<>>
  /\ exportSelectedSubDiscs = <<>>
  /\ downloaded = NoDownload
  /\ pc = "getSession"
  /\ aborted = FALSE
  /\ redirected = FALSE
  /\ error = "none"

\* const svg = generateTendanceSVG(opts)
Generate ==
  /\ ~doc.generated
  /\ doc' = generateTendanceSVG(opts)
  /\ UNCHANGED <<pageVars, fetchVars, opts, exportVars>>

NextSvg == Generate

SpecSvg == InitSvg(LayoutInputs) /\ [][NextSvg]_vars

SpecEsc == InitSvg(TextInputs) /\ [][NextSvg]_vars

SpecBar == InitSvg(BarInputs) /\ [][NextSvg]_vars

----------------------------------------------------------------------------
(* Properties *)

Range(seq) == {seq[i] : i \in 1..Len(seq)}

\* the sum of f over the finite set S of its domain
RECURSIVE SumOver(_, _)
SumOver(f, S) ==
  IF S = {} THEN 0
  ELSE LET x == CHOOSE x \in S : TRUE IN f[x] + SumOver(f, S \ {x})

\* the filter condition as the specification states it
Passes(e) ==
  /\ selectedExamTypes = <<>> \/ e.et \in Range(selectedExamTypes)
  /\ selectedPromos = <<>> \/ e.ey \in Range(selectedPromos)

\* the positions of the raw entries that pass the filter
PassIdx == {i \in 1..Len(rawEntries) : Passes(rawEntries[i])}

Triple(e) == <<e.m, e.sd, e.c>>
TripleOf(d) == <<d.module_name, d.sub_discipline, d.cours_topic>>

\* the positions of the passing raw entries that have the triple t
IdxOfTriple(t) == {i \in PassIdx : Triple(rawEntries[i]) = t}

\* the passing raw entries, in their order
RECURSIVE PassingFrom(_)
PassingFrom(i) ==
  IF i > Len(rawEntries) THEN <<>>
  ELSE (IF i \in PassIdx THEN <<rawEntries[i]>> ELSE <<>>) \o PassingFrom(i + 1)

\* C1: the question counts of the aggregated entries add up to the counts of
\* the raw entries that pass the filter.
C1_Conservation ==
  SumOver([i \in 1..Len(filteredData) |-> filteredData[i].question_count],
          1..Len(filteredData))
    = SumOver([i \in 1..Len(rawEntries) |-> rawEntries[i].cnt], PassIdx)

\* some raw entries are filtered out and some of the others are merged
C1_Witness ==
  /\ ~loading
  /\ Cardinality(PassIdx) < Len(rawEntries)
  /\ 0 < Len(filteredData)
  /\ Len(filteredData) < Cardinality(PassIdx)

\* C2: one aggregated entry per distinct (module, sub-discipline, course)
\* triple among the passing raw entries: no two entries share a triple and
\* entries with different triples are never merged.
C2_OneEntryPerTriple ==
  /\ \A i, j \in 1..Len(filteredData) :
        TripleOf(filteredData[i]) = TripleOf(filteredData[j]) => i = j
  /\ {TripleOf(filteredData[i]) : i \in 1..Len(filteredData)}
        = {Triple(rawEntries[i]) : i \in PassIdx}

\* C3: a raw entry is kept by the filter exactly when each axis is empty or
\* contains the value of the entry: the kept list is the list of the passing
\* entries, and the aggregated data hold exactly their keys.
C3_FilterKeeps ==
  /\ filtered(rawEntries, selectedExamTypes, selectedPromos) = PassingFrom(1)
  /\ {filteredData[i].module_name \o KeySep \o filteredData[i].sub_discipline
         \o KeySep \o filteredData[i].cours_topic : i \in 1..Len(filteredData)}
       = {rawEntries[i].m \o KeySep \o rawEntries[i].sd \o KeySep
            \o rawEntries[i].c : i \in PassIdx}

\* one axis restricts, the other is empty and restricts nothing
C3_Witness ==
  /\ ~loading
  /\ selectedExamTypes # <<>>
  /\ selectedPromos = <<>>
  /\ PassIdx # {}
  /\ PassIdx # 1..Len(rawEntries)

\* the values of a set of integers, ascending
RECURSIVE Ascending(_)
Ascending(S) ==
  IF S = {} THEN <<>>
  ELSE LET lo == CHOOSE y \in S : \A z \in S : y <= z
       IN  <<lo>> \o Ascending(S \ {lo})

\* the statement of C4 for the aggregated entry d
PerEntryTotals(d) ==
  LET idx   == IdxOfTriple(TripleOf(d))
      years == {rawEntries[i].ey : i \in idx}
  IN  /\ d.question_count
           = SumOver([i \in 1..Len(rawEntries) |-> rawEntries[i].cnt], idx)
      /\ d.exam_years_list = Ascending(years)
      /\ d.years_appeared = Cardinality(years)

\* C4: each aggregated entry holds the sum of the counts, the ascending
\* list of the years and the number of years of the passing raw entries
\* that have its triple.
C4_PerEntryTotals ==
  \A k \in 1..Len(filteredData) : PerEntryTotals(filteredData[k])

\* the aggregation key tells the triples of the passing raw entries apart
KeysInjective ==
  \A i, j \in PassIdx :
    aggKey(rawEntries[i]) = aggKey(rawEntries[j])
      => Triple(rawEntries[i]) = Triple(rawEntries[j])

\* C2 and C4 hold of every state in which no two triples share a key
C2_C4_HoldWithInjectiveKeys ==
  KeysInjective => (C2_OneEntryPerTriple /\ C4_PerEntryTotals)

\* the position of the first passing raw entry that has the triple of d
FirstIdx(d) ==
  LET idx == IdxOfTriple(TripleOf(d))
  IN  CHOOSE i \in idx : \A j \in idx : i <= j

\* entries ranked: counts non-increasing, equal counts in aggregation order
Ranked(entries, n) ==
  \A i, j \in 1..n :
    i < j =>
      \/ entries[i].question_count > entries[j].question_count
      \/ /\ entries[i].question_count = entries[j].question_count
         /\ FirstIdx(entries[i]) < FirstIdx(entries[j])

\* the sequences over the elements of the finite set S, each element once
\* at most, one sequence per subset
SeqOf(S, all) == SelectSeq(all, LAMBDA x : x \in S)

\* the sub-discipline lists an export can be asked for: the selections of
\* the sub-disciplines of a module
Selections(mod) == {SeqOf(S, mod.sub_disciplines) :
                      S \in SUBSET Range(mod.sub_disciplines)}

\* the export data the page can build
ExportData ==
  UNION {{buildSvgDataForModule(modules[i].module_name, sel) :
            sel \in Selections(modules[i])} : i \in 1..Len(modules)}

\* the export entry e of module mod and sub-discipline sd with its triple
AsCours(mod, sd, e) ==
  [module_name |-> mod, sub_discipline |-> sd, cours_topic |-> e.cours_topic,
   question_count |-> e.question_count]

\* C5: in every sub-discipline block, displayed or exported, the entries
\* are ordered by question_count non-increasing and entries with equal
\* counts are in their aggregation order.
C5_BlocksRanked ==
  /\ \A g \in 1..Len(groupedBySubDisc) :
        Ranked(groupedBySubDisc[g][2], Len(groupedBySubDisc[g][2]))
  /\ \A data \in ExportData :
        \A g \in 1..Len(data.subDiscGroups) :
          LET grp == data.subDiscGroups[g]
          IN  Ranked([k \in 1..Len(grp.entries) |->
                        AsCours(data.moduleName, grp.sub_discipline, grp.entries[k])],
                     Len(grp.entries))

\* the comparator of filteredData is consistent for the aggregated entries
ComparatorConsistent == Consistent(CompareAll(filteredData, "coursEntry"))

\* C5 holds of every state whose aggregated entries the comparator orders
\* consistently
C5_HoldsWithConsistentComparator == ComparatorConsistent => C5_BlocksRanked

\* the order of two sub-discipline names a before b that C6 states
InSubDiscOrder(a, b) ==
  LET la == a \in Range(order)
      lb == b \in Range(order)
  IN  /\ (la /\ lb) => indexOf(order, a) < indexOf(order, b)
      /\ ~la => ~lb
      /\ (~la /\ ~lb) => localeCompare(a, b) <= 0

SubDiscOrdered(names) ==
  \A i, j \in 1..Len(names) : i < j => InSubDiscOrder(names[i], names[j])

DisplayNames == [g \in 1..Len(groupedBySubDisc) |-> groupedBySubDisc[g][1]]

ExportNames(data) ==
  [g \in 1..Len(data.subDiscGroups) |-> data.subDiscGroups[g].sub_discipline]

FirstOfModule(name) ==
  CHOOSE i \in 1..Len(filteredData) :
    /\ filteredData[i].module_name = name
    /\ \A j \in 1..(i - 1) : filteredData[j].module_name # name

\* C7: one summary per module of the aggregated data, with the sum of the
\* module's question counts and its sub-discipline names sorted (by code
\* units, as Array.prototype.sort does) without duplicates; the summaries
\* by total non-increasing, equal totals in the order of first occurrence.
C7_ModuleList ==
  /\ {modules[i].module_name : i \in 1..Len(modules)}
       = {filteredData[k].module_name : k \in 1..Len(filteredData)}
  /\ \A i, j \in 1..Len(modules) :
        modules[i].module_name = modules[j].module_name => i = j
  /\ \A i \in 1..Len(modules) :
        LET mod == modules[i]
            idx == {k \in 1..Len(filteredData) :
                      filteredData[k].module_name = mod.module_name}
        IN  /\ mod.total_questions
                 = SumOver([k \in 1..Len(filteredData) |->
                              filteredData[k].question_count], idx)
            /\ Range(mod.sub_disciplines)
                 = {filteredData[k].sub_discipline : k \in idx}
            /\ \A a, b \in 1..Len(mod.sub_disciplines) :
                  a < b => CmpDefault(mod.sub_disciplines[a],
                                      mod.sub_disciplines[b]) < 0
  /\ \A i, j \in 1..Len(modules) :
        i < j =>
          \/ modules[i].total_questions > modules[j].total_questions
          \/ /\ modules[i].total_questions = modules[j].total_questions
             /\ FirstOfModule(modules[i].module_name)
                  < FirstOfModule(modules[j].module_name)

\* two modules, the first aggregated one with the smaller total, and a
\* module whose sub-discipline names are listed against their first use
C7_Witness ==
  /\ Len(modules) = 2
  /\ modules[1].total_questions > modules[2].total_questions
  /\ FirstOfModule(modules[2].module_name) < FirstOfModule(modules[1].module_name)
  /\ modules[1].sub_disciplines = << <<"B">>, <<"a">> >>


\* the entity of a character, or the character itself
Entity(ch) ==
  CASE ch = "&"  -> <<"&","a","m","p",";">>
    [] ch = "<"  -> <<"&","l","t",";">>
    [] ch = ">"  -> <<"&","g","t",";">>
    [] ch = "\"" -> <<"&","q","u","o","t",";">>
    [] ch = "'"  -> <<"&","a","p","o","s",";">>
    [] OTHER     -> <<ch>>

Entities == {Entity("&"), Entity("<"), Entity(">"), Entity("\""), Entity("'")}

\* text with each character replaced by its entity, once
RECURSIVE Embedded(_)
Embedded(text) ==
  IF text = <<>> THEN <<>> ELSE Entity(Head(text)) \o Embedded(Tail(text))

\* the label of a course: its name, cut to 50 characters with an ellipsis
Label(name) ==
  IF Len(name) <= 50 THEN name ELSE SubSeq(name, 1, 49) \o <<"ELLIPSIS">>

\* out holds no raw < > " ' and each of its & starts an entity
Protected(out) ==
  /\ Range(out) \cap {"<", ">", "\"", "'"} = {}
  /\ \A i \in 1..Len(out) :
       out[i] = "&" =>
         \E ent \in Entities :
           /\ i + Len(ent) - 1 <= Len(out)
           /\ SubSeq(out, i, i + Len(ent) - 1) = ent

\* the texts of the document with the text each one embeds
EmbeddedTexts ==
  {<<doc.moduleName, opts.moduleName>>,
   <<doc.promos, opts.examYearsRange>>,
   <<doc.footerRange, opts.examYearsRange>>}
  \cup {<<doc.bodyParts[p].text,
          opts.subDiscGroups[doc.bodyParts[p].group + 1].sub_discipline>> :
          p \in {q \in 1..Len(doc.bodyParts) :
                   doc.bodyParts[q].kind = "groupHeader"}}
  \cup {<<doc.bodyParts[p].label,
          Label(opts.subDiscGroups[doc.bodyParts[p].group + 1]
                  .entries[doc.bodyParts[p].rank].cours_topic)>> :
          p \in {q \in 1..Len(doc.bodyParts) : doc.bodyParts[q].kind = "row"}}

\* C8: the module name, the sub-discipline names, the truncated course
\* labels and the year range are embedded in the document with each of
\* & < > " ' replaced by its entity, once: no raw < > " ' reaches the
\* document and every & starts an entity.
C8_TextsEscaped ==
  doc.generated =>
    \A pair \in EmbeddedTexts :
      /\ pair[1] = Embedded(pair[2])
      /\ Protected(pair[1])

\* a document whose texts hold an ampersand and a quote, one of its course
\* labels cut by truncateText
C8_Witness ==
  /\ doc.generated
  /\ {"&", "\""} \subseteq Range(opts.moduleName)
  /\ \E p \in 1..Len(doc.bodyParts) :
       /\ doc.bodyParts[p].kind = "row"
       /\ "ELLIPSIS" \in Range(doc.bodyParts[p].label)
       /\ "&" \in Range(doc.bodyParts[p].label)

\* the number of groups of the options that have an entry
NumBlocks ==
  Cardinality({g \in 1..Len(opts.subDiscGroups) :
                 Len(opts.subDiscGroups[g].entries) > 0})

\* spaceForRows of C9 for numBlocks blocks
SpaceForRows(numBlocks) ==
  840 - 32 * numBlocks - 20 * (IF numBlocks > 1 THEN numBlocks - 1 ELSE 0)

\* C9: when a group has entries, the cap is floor(spaceForRows / 36 /
\* numBlocks) clamped to [2, 5], numBlocks the number of groups with an
\* entry.
C9_CapOfNonEmptyBlocks ==
  (doc.generated /\ NumBlocks > 0) =>
    LET q == SpaceForRows(NumBlocks) \div (36 * NumBlocks)
    IN  doc.effectiveMax = (IF q < 2 THEN 2 ELSE IF q > 5 THEN 5 ELSE q)

\* C9 holds of the calls in which every group has an entry
C9_HoldsWithoutEmptyGroups ==
  NumBlocks = Len(opts.subDiscGroups) => C9_CapOfNonEmptyBlocks

\* the height the rendered parts consume: 32 a header, 36 a row, 20 a gap
\* between consecutive groups
Consumed ==
  LET headers == {p \in 1..Len(doc.bodyParts) :
                    doc.bodyParts[p].kind = "groupHeader"}
      rows    == {p \in 1..Len(doc.bodyParts) : doc.bodyParts[p].kind = "row"}
      n       == Cardinality(headers)
  IN  32 * n + 36 * Cardinality(rows) + 20 * (IF n > 1 THEN n - 1 ELSE 0)

\* the cap is the minimum 2 forced over a smaller quotient
CapForced ==
  LET n == Len(opts.subDiscGroups)
  IN  /\ \E g \in 1..n : Len(opts.subDiscGroups[g].entries) > 0
      /\ (840 - 32 * n - 20 * (n - 1)) \div (36 * n) < 2
      /\ doc.effectiveMax = 2

\* C10: the group blocks consume at most 840 and the y cursor ends at 1020
\* at most, unless the quotient was below 2 and the cap was forced to 2.
C10_FitsAvailableHeight ==
  doc.generated =>
    \/ Consumed <= 840 /\ doc.y <= 1020
    \/ CapForced

\* the y cursor advances by what the blocks consume
C10_CursorIsConsumed ==
  doc.generated => doc.y = 180 + Consumed

\* C10 holds of the calls in which every group has an entry
C10_HoldsWithoutEmptyGroups ==
  NumBlocks = Len(opts.subDiscGroups) => C10_FitsAvailableHeight


\* the rows and the headers of the document for the g-th group, in order
RowsOf(g) ==
  SelectSeq(doc.bodyParts, LAMBDA p : p.kind = "row" /\ p.group = g - 1)

HeadersOf(g) ==
  SelectSeq(doc.bodyParts, LAMBDA p : p.kind = "groupHeader" /\ p.group = g - 1)

\* C11: one cap for every group of a call: the rows of a group are its
\* first min(cap, number of entries) entries, in their order, numbered from
\* 1, and the "Top N" of its header is the number of its rows.
C11_UniformCap ==
  doc.generated =>
    \A g \in 1..Len(opts.subDiscGroups) :
      LET entries == opts.subDiscGroups[g].entries
          rows    == RowsOf(g)
          k       == IF doc.effectiveMax < Len(entries)
                     THEN doc.effectiveMax ELSE Len(entries)
      IN  /\ Len(rows) = k
          /\ \A i \in 1..k :
               /\ rows[i].rank = i
               /\ rows[i].count = entries[i].question_count
               /\ rows[i].label = Embedded(Label(entries[i].cours_topic))
          /\ \A h \in 1..Len(HeadersOf(g)) : HeadersOf(g)[h].top = Len(rows)

\* a document with a group cut by the cap and a group shorter than the cap
C11_Witness ==
  /\ doc.generated
  /\ \E g \in 1..Len(opts.subDiscGroups) :
       Len(opts.subDiscGroups[g].entries) > doc.effectiveMax
  /\ \E g \in 1..Len(opts.subDiscGroups) :
       /\ Len(opts.subDiscGroups[g].entries) > 0
       /\ Len(opts.subDiscGroups[g].entries) < doc.effectiveMax


\* pct is max(8, q / localMax * 100), localMax > 0, on the exact fraction
PctIs(pct, q, localMax) ==
  IF q * 100 >= 8 * localMax THEN pct.num * localMax = q * 100 * pct.den
  ELSE pct.num = 8 * pct.den

\* C12: the bar of a row is max(8, question_count / localMax * 100)
\* percent, localMax the count of the first row of its group; the bars of a
\* group whose counts are all 0 are 8 percent. The blocks of the page
\* compute their bars the same way from their first entry.
C12_BarPercentage ==
  doc.generated =>
    \A g \in 1..Len(opts.subDiscGroups) :
      LET entries == opts.subDiscGroups[g].entries
          rows    == RowsOf(g)
      IN  /\ \A i \in 1..Len(rows) :
               /\ rows[1].count > 0 =>
                    PctIs(rows[i].barPct, rows[i].count, rows[1].count)
               /\ (\A k \in 1..Len(entries) : entries[k].question_count = 0) =>
                    rows[i].barPct.num = 8 * rows[i].barPct.den
          /\ \A i \in 1..Len(entries) :
               /\ entries[1].question_count > 0 =>
                    PctIs(displayBarWidth(entries, i), entries[i].question_count,
                          entries[1].question_count)
               /\ (\A k \in 1..Len(entries) : entries[k].question_count = 0) =>
                    displayBarWidth(entries, i).num
                      = 8 * displayBarWidth(entries, i).den

\* a row raised to 8 percent, a row at a fraction of its group's first, and a
\* group whose counts are all 0
C12_Witness ==
  /\ doc.generated
  /\ \E i \in 1..Len(RowsOf(1)) :
       RowsOf(1)[1].count = MaxCount /\ RowsOf(1)[i].count = 0
  /\ \E i \in 1..Len(RowsOf(1)) :
       RowsOf(1)[i].barPct.num * MaxCount = 100 * RowsOf(1)[i].barPct.den
  /\ Len(RowsOf(2)) = 2
  /\ RowsOf(2)[1].count = 0


\* the height the groups that have an entry would consume on their own
ConsumedByBlocks ==
  Cardinality({p \in 1..Len(doc.bodyParts) : doc.bodyParts[p].kind = "row"}) * 36
    + 32 * NumBlocks + 20 * (IF NumBlocks > 1 THEN NumBlocks - 1 ELSE 0)

\* C13: a group without entries is skipped: it has no header and no row,
\* takes no height and no gap, and is not counted for the cap.
C13_EmptyGroupSkipped ==
  doc.generated =>
    /\ \A g \in 1..Len(opts.subDiscGroups) :
         Len(opts.subDiscGroups[g].entries) = 0 =>
           Len(HeadersOf(g)) = 0 /\ Len(RowsOf(g)) = 0
    /\ doc.y = 180 + ConsumedByBlocks
    /\ C9_CapOfNonEmptyBlocks

\* a group without entries never gets a row, and the calls whose groups all
\* have an entry are laid out as C13 states
C13_HoldsWithoutEmptyGroups ==
  /\ doc.generated =>
       \A g \in 1..Len(opts.subDiscGroups) :
         Len(opts.subDiscGroups[g].entries) = 0 => Len(RowsOf(g)) = 0
  /\ NumBlocks = Len(opts.subDiscGroups) => C13_EmptyGroupSkipped

\* C14: a call with no group at all returns no document.
C14_ZeroGroupsRejected ==
  ~(doc.generated /\ Len(opts.subDiscGroups) = 0)

\* the identifiers of the gradients of a document, in the order of <defs>
GradientIds ==
  [i \in 1..Len(doc.gradients) |-> <<doc.gradients[i]>>]
    \o [i \in 1..Len(doc.barGradients) |-> doc.barGradients[i].id]

\* C18: the bar gradients of the groups have pairwise distinct identifiers,
\* none of them a fixed identifier, one per group, and the bar of every row
\* refers to the gradient of its own group.
C18_GradientPerGroup ==
  doc.generated =>
    /\ Len(doc.barGradients) = Len(opts.subDiscGroups)
    /\ \A i, j \in 1..Len(GradientIds) : GradientIds[i] = GradientIds[j] => i = j
    /\ \A g \in 1..Len(opts.subDiscGroups) :
         \A i \in 1..Len(RowsOf(g)) :
           /\ RowsOf(g)[i].fill = doc.barGradients[g].id
           /\ doc.barGradients[g].accent
                = accentOf(opts.subDiscGroups[g].sub_discipline)

\* two groups of the same name, each with rows
C18_Witness ==
  /\ doc.generated
  /\ Len(opts.subDiscGroups) >= 3
  /\ opts.subDiscGroups[2].sub_discipline = opts.subDiscGroups[3].sub_discipline
  /\ Len(RowsOf(2)) > 0
  /\ Len(RowsOf(3)) > 0


\* C17: a course name of at most 50 characters is rendered as it is; a
\* longer one as a prefix of it followed by one ellipsis, 50 characters at
\* most with the ellipsis; the entities are made of the truncated text, so
\* none is cut.
C17_LabelTruncated ==
  doc.generated =>
    \A g \in 1..Len(opts.subDiscGroups) :
      \A i \in 1..Len(RowsOf(g)) :
        LET name  == opts.subDiscGroups[g].entries[i].cours_topic
            label == RowsOf(g)[i].label
        IN  /\ Len(name) <= 50 => label = Embedded(name)
            /\ Len(name) > 50 =>
                 \E k \in 0..49 :
                   label = Embedded(SubSeq(name, 1, k) \o <<"ELLIPSIS">>)

\* a name of 50 characters, and one of 51 whose last kept character is &
C17_Witness ==
  /\ doc.generated
  /\ \E g \in 1..Len(opts.subDiscGroups) :
       \E i \in 1..Len(RowsOf(g)) :
         LET name == opts.subDiscGroups[g].entries[i].cours_topic
         IN  /\ Len(name) = 51
             /\ name[49] = "&"
             /\ "ELLIPSIS" \in Range(RowsOf(g)[i].label)

\* a name of exactly 50 characters is reached and left whole
C17_WitnessWhole ==
  /\ doc.generated
  /\ \E g \in 1..Len(opts.subDiscGroups) :
       \E i \in 1..Len(RowsOf(g)) :
         /\ Len(opts.subDiscGroups[g].entries[i].cours_topic) = 50
         /\ ~ ("ELLIPSIS" \in Range(RowsOf(g)[i].label))


ModuleNames == {modules[i].module_name : i \in 1..Len(modules)}

\* the selection is a module of the list, or empty when the list is empty
SelectionValid ==
  IF modules = <<>> THEN selectedModule = <<>>
  ELSE selectedModule \in ModuleNames

\* the first module of the list has the highest total
FirstIsHighest ==
  \A i \in 1..Len(modules) :
    modules[1].total_questions >= modules[i].total_questions

\* a step from a loaded page: a selection that is not in the list is
\* replaced by the first module (by the empty string when there is none),
\* and a step that changes the filters leaves the selection alone
SelectionStep ==
  ~loading =>
    /\ (modules # <<>> /\ selectedModule \notin ModuleNames) =>
         selectedModule' = modules[1].module_name
    /\ (modules = <<>> /\ selectedModule # <<>>) => selectedModule' = <<>>
    /\ (selectedExamTypes' # selectedExamTypes \/ selectedPromos' # selectedPromos)
         => selectedModule' = selectedModule
    /\ (selectedModule \in ModuleNames /\ selectedModule' # selectedModule)
         => (modules' = modules /\ selectedModule' \in ModuleNames)

\* C19: once the validity effect has nothing left to do, selectedModule is
\* a module of the list, or the empty string when the list is empty; a
\* selection that left the list is replaced by the first module, which has
\* the highest total, and a selection still in the list is only changed by
\* a click on a tab.
C19_SelectionKeptValid ==
  /\ []((~loading /\ ~effectPending) => (SelectionValid /\ FirstIsHighest))
  /\ [][SelectionStep]_vars

\* the module the page selected first has left the list, two others are
\* listed, and the first of them is selected
C19_Witness ==
  /\ ~loading
  /\ ~effectPending
  /\ Len(modules) = 2
  /\ rawEntries[1].m \notin ModuleNames
  /\ modules[1].total_questions > modules[2].total_questions
  /\ selectedModule = modules[1].module_name

----------------------------------------------------------------------------
(* the export panel *)

\* a step in which the export handler built data, generated a document or
\* handed a file to the browser
Exported == opts' # opts \/ doc' # doc \/ downloaded' # downloaded

\* C15: whatever the export panel did before, a document is generated and
\* downloaded only from a state where a module is selected for export, at
\* least one sub-discipline is selected and no export is in progress; from
\* any other state no step builds data, generates a document or downloads
\* a file, and no step leaves an export in progress.
C15_ExportGuard ==
  [][/\ Exported =>
          /\ exportSelectedModule # <<>>
          /\ Len(exportSelectedSubDiscs) > 0
          /\ ~exporting
     /\ exporting' = FALSE]_vars

\* a file was downloaded for a module with a sub-discipline selected
C15_Witness ==
  /\ downloaded.done
  /\ downloaded.svg = doc
  /\ exportSelectedModule # <<>>
  /\ Len(exportSelectedSubDiscs) > 0

\* the panel on its second step with "Aucune" pressed, after an export
C15_WitnessRefused ==
  /\ idle
  /\ exportDropdownOpen
  /\ exportStep = "subdisc"
  /\ exportSelectedModule # <<>>
  /\ exportSelectedSubDiscs = <<>>
  /\ doc.generated

\* C16: on a loaded page where no raw entry passes the filters (the raw
\* list may be empty), the aggregated list, the module list and the
\* sub-discipline blocks are empty and, once the validity effect has run,
\* so is the selected module; a document generated from zero groups has
\* the cap MAX_COURSES, computed without a division, and no group in it.
C16_NothingToShow ==
  /\ (~loading /\ PassIdx = {}) =>
        /\ filteredData = <<>>
        /\ modules = <<>>
        /\ groupedBySubDisc = <<>>
        /\ ~effectPending => selectedModule = <<>>
  /\ (doc.generated /\ Len(opts.subDiscGroups) = 0) =>
        /\ doc.effectiveMax = MAX_COURSES
        /\ doc.bodyParts = <<>>
        /\ doc.barGradients = <<>>

\* raw entries that the filters all reject, the page settled on no module,
\* and a document generated from zero groups
C16_Witness ==
  /\ idle
  /\ Len(rawEntries) > 0
  /\ PassIdx = {}
  /\ selectedModule = <<>>
  /\ doc.generated
  /\ Len(opts.subDiscGroups) = 0

\* an empty raw list on a loaded page
C16_WitnessEmptyList ==
  /\ idle
  /\ rawEntries = <<>>
  /\ selectedModule = <<>>

\* every selected sub-discipline is one of the export module under the
\* current filters
SelectionFresh ==
  \A i \in 1..Len(exportSelectedSubDiscs) :
    includes(exportModuleSubDiscs, exportSelectedSubDiscs[i])

\* the exported data has one group for each selected sub-discipline
OneGroupPerSelected ==
  /\ Len(opts'.subDiscGroups) = Len(exportSelectedSubDiscs)
  /\ Len(opts'.subDiscGroups) >= 1
  /\ \A i \in 1..Len(opts'.subDiscGroups) :
       includes(exportSelectedSubDiscs, opts'.subDiscGroups[i].sub_discipline)

\* C20: whenever the export handler generates a document, every selected
\* sub-discipline is a sub-discipline of the export module under the
\* filters of that moment, and the exported data has exactly one group for
\* each of them, at least one.
C20_SelectionBelongsToModule ==
  [][Exported => (SelectionFresh /\ OneGroupPerSelected)]_vars

\* an export from a selection that is still one of the module has one
\* group for each selected sub-discipline
C20_HoldsWhenSelectionFresh ==
  [][(Exported /\ SelectionFresh) => OneGroupPerSelected]_vars

\* a document generated while a selected sub-discipline was no longer one
\* of the export module
C20_StaleExport ==
  /\ doc.generated
  /\ Len(opts.subDiscGroups) < Len(exportSelectedSubDiscs)

\* a step of the export handler from a state that passes its guard
ExportCall ==
  /\ handleExportFinal
  /\ exportSelectedModule # <<>>
  /\ Len(exportSelectedSubDiscs) > 0
  /\ ~exporting

\* C22: every call of the export handler that passes its guard ends with
\* exporting false, the panel closed and the step back to "module",
\* whether the document was downloaded or generateTendanceSVG or
\* downloadSVG threw; the error is caught (the outcome records which call
\* threw) and exporting is false in every state.
C22_ExportAlwaysEnds ==
  /\ [](~exporting)
  /\ [][(Exported \/ ExportCall) =>
          /\ exporting' = FALSE
          /\ exportDropdownOpen' = FALSE
          /\ exportStep' = "module"
          /\ downloaded'.done \/ downloaded'.caught # "none"]_vars

\* downloadSVG threw after the document was generated: the panel is
\* closed, on its first step, and no export is in progress
C22_Witness ==
  /\ downloaded = Caught("downloadSVG")
  /\ doc.generated
  /\ ~exporting
  /\ ~exportDropdownOpen
  /\ exportStep = "module"

\* generateTendanceSVG threw: no document, the panel closed all the same
C22_WitnessNoDocument ==
  /\ downloaded = Caught("generateTendanceSVG")
  /\ ~doc.generated
  /\ ~exporting
  /\ ~exportDropdownOpen
  /\ exportStep = "module"

----------------------------------------------------------------------------
(* the bars of an exported document *)

\* the rows of the document
Rows == SelectSeq(doc.bodyParts, LAMBDA p : p.kind = "row")

\* the width of the track a bar is drawn on: const barAreaW = contentW - 80
TrackWidth == contentW - 80

\* a bar of 8 to 100 percent, not wider than its track and, rounded, not
\* narrower than 8 percent of it
BarWithinTrack(row) ==
  /\ row.barPct.num >= minBarPct * row.barPct.den
  /\ row.barPct.num <= 100 * row.barPct.den
  /\ row.barW <= TrackWidth
  /\ 100 * row.barW + 50 >= minBarPct * TrackWidth

\* C23: every bar of a document exported by the page is 8 to 100 percent
\* of its track: never wider than contentW - 80 = 904, never below 8
\* percent of it.
C23_BarsWithinTrack ==
  doc.generated => \A i \in 1..Len(Rows) : BarWithinTrack(Rows[i])

\* the exported counts are not negative and fall along each group
ExportRanked ==
  \A g \in 1..Len(opts.subDiscGroups) :
    LET entries == opts.subDiscGroups[g].entries
    IN  \A i, j \in 1..Len(entries) :
          /\ entries[i].question_count >= 0
          /\ i < j => entries[i].question_count >= entries[j].question_count

\* C23 holds of every export whose groups are ranked by count
C23_HoldsWhenRanked ==
  (doc.generated /\ ExportRanked) => C23_BarsWithinTrack

\* an exported group of module K whose counts rise, with a bar wider than
\* its track
C23_BarOverflows ==
  /\ doc.generated
  /\ downloaded.done
  /\ opts.moduleName = <<"K">>
  /\ ~ExportRanked
  /\ \E i \in 1..Len(Rows) : Rows[i].barW > TrackWidth

\* exports of ranked groups: counts 2 then 1, and counts that are all 0
C23_RankedExports ==
  /\ doc.generated
  /\ ExportRanked
  /\ Len(Rows) = 2
  /\ \/ Rows[1].count = 2 /\ Rows[2].count = 1
     \/ Rows[1].count = 0 /\ Rows[2].count = 0

----------------------------------------------------------------------------
(* the fetch effect *)

\* what fetchData sets, and the redirect to /login
fetchTargets ==
  <<rawEntries, availableExamTypes, availablePromos, selectedExamTypes,
    selectedPromos, selectedModule, error, loading, redirected>>

\* C21: from a state in which the cleanup has aborted the controller, no
\* step of fetchData changes the raw entries, the available or selected
\* exam types and years, the selected module, the error or loading, or
\* redirects to /login, whichever await was pending and whether it
\* resolves or rejects.
C21_AbortedFetchIsSilent ==
  [][aborted => UNCHANGED fetchTargets]_vars

\* fetchData returned after the abort: the page is still loading, without
\* data, error or redirect
C21_Witness ==
  /\ aborted
  /\ pc = "done"
  /\ loading
  /\ rawEntries = <<>>
  /\ error = "none"
  /\ ~redirected
  /\ Len(response.data) > 0

\* a routine that was not aborted set the data, an error or the redirect
C21_WitnessNotAborted ==
  /\ ~aborted
  /\ pc = "done"
  /\ \/ ~loading /\ Len(rawEntries) > 0
     \/ ~loading /\ error # "none"
     \/ loading /\ redirected

====
